---- MODULE Spec2Model ----
(***************************************************************************)
(* Model of the Redshift Data API client and cursor                        *)
(*   src/dbt/adapters/redshift/data_api/client.py      RedshiftDataClient  *)
(*   src/dbt/adapters/redshift/data_api/connection.py  Cursor,             *)
(*                                                     DataApiConnection   *)
(*                                                                         *)
(* The remote service is the environment: every RPC (batch_execute_        *)
(* statement, describe_statement, get_statement_result, cancel_statement)  *)
(* answers nondeterministically.  The client is single threaded, so at     *)
(* most one execute_sqls activation exists; its position is pc.            *)
(***************************************************************************)
EXTENDS Integers, Sequences, FiniteSets, TLC

VARIABLES
    given,    \* the connection arguments RedshiftDataClient was constructed with (the non-empty ones)
    conn,     \* RedshiftDataClient._connection_details (its keys)
    open,     \* the Cursor objects constructed on the client, Cursor(client)
    issued,   \* backend: the number of executions accepted so far, whose ids are 1..issued
    cur,      \* cur[c]: the fields of Cursor c (_query_id, _result_set, _column_metadata)
    hist,     \* hist[c]: history of c, how its latest execute ended and what it returned
    gen,      \* the generator of the latest execute_fetch, once its first next() has run
    pc,       \* position of the execute_sqls activation: idle, submit, poll, cancel
    call,     \* locals of the execute_sqls / _wait activation, with what it has slept and polled
    log,      \* the RPCs of the operation in progress, or of the last one
    ret       \* what the last finished operation returned or raised

vars == <<given, conn, open, issued, cur, hist, gen, pc, call, log, ret>>

\* what no operation assigns after construction
fixed == <<given, conn, open>>

-----------------------------------------------------------------------------
(* Bounds of the model *)

\* executions the backend accepts in one behaviour
MaxExec == 2
\* largest timeout_seconds handed to execute_sqls directly
MaxTimeout == 11

(* Program constants *)

\* client.py:47  assert len(sqls) <= 40
MaxBatch == 40
\* client.py:61-62  timeout_seconds -= 10; time.sleep(10)
Backoff == 10
\* client.py:46,69  timeout_seconds: int = 120
DefaultTimeout == 120
\* client.py:66  self._wait(id_, timeout_seconds, 1)
CheckInterval == 1
\* client.py:106  check_count = 5
FallbackChecks == 5

\* Python's None
None == 0

Cursors == {"A", "B"}

-----------------------------------------------------------------------------
(* The environment's answers *)

\* batch sizes handed to execute_sqls: around both ends of the accepted range
BatchSizes == {0, 1, MaxBatch, MaxBatch + 1, MaxBatch + 2}

Timeouts == (-1)..MaxTimeout

\* answers of batch_execute_statement
SubmitAnswers == {"accepted", "ActiveStatementsExceededException", "ValidationException"}

\* the Status strings describe_statement may carry, as sent
RawStatuses == {"SUBMITTED", "PICKED", "STARTED", "FINISHED", "finished",
                "ABORTED", "FAILED", "ALL"}

ErrorTexts == {"syntax error", "cancelled by user"}

\* str.upper() on the statuses above
Upper(s) ==
    CASE s = "finished" -> "FINISHED"
      [] OTHER          -> s

\* describe_statement answers read by _wait: a response (Status, and Error when the
\* statement failed) or the RPC raising
DescribeAnswers ==
    [status : RawStatuses \ {"ABORTED", "FAILED"}, error : {""}, raises : {FALSE}]
    \cup [status : {"ABORTED", "FAILED"}, error : ErrorTexts, raises : {FALSE}]
    \cup [status : {""}, error : {""}, raises : {TRUE}]

CancelAnswers == {"ack", "error"}

\* The result data the backend holds for execution id: the number of sub-statements
\* describe_statement lists, and the sizes of the result pages of the statement
\* whose rows are read.  Executions differ in both.
Data(id) ==
    CASE id % 3 = 1 -> [subs |-> 0, pages |-> <<2, 1>>]
      [] id % 3 = 2 -> [subs |-> 2, pages |-> <<1, 0, 1>>]
      [] OTHER      -> [subs |-> 1, pages |-> <<0>>]

-----------------------------------------------------------------------------
(* Values *)

\* the builtin class str, which is no execution identifier
StrClass == -1

\* no activation.  polls and sleeps record what the activation has done so far:
\* the describe_statement calls of _wait, and every time.sleep as <<why, seconds>>
NoCall == [caller |-> "none", sqls |-> 0, wait |-> FALSE, timeout_seconds |-> 0,
           id_ |-> None, check_count |-> 0, i |-> 0, polls |-> 0, sleeps |-> <<>>]

NoExc == [type |-> "", id |-> None, status |-> "", error |-> ""]

\* the log of an operation called with n statements and timeout T: the RPCs counted
\* (submits, cancels, get_statement_result pages, and the describe_statement calls of
\* row_count and result_set; those of _wait are counted in call.polls), the
\* connection parameters of the last batch_execute_statement (sent), the
\* backoff sleeps and the timeout budget left after them, the last thing done (last),
\* the last answer of batch_execute_statement (answer), the last describe_statement
\* answer read by _wait (status, error) and the Id handed to cancel_statement
NewLog(n, T) == [sqls |-> n, t0 |-> T, submits |-> 0, describes |-> 0, pages |-> 0,
                 cancels |-> 0, cancelArg |-> None, backoffs |-> 0, budget |-> T,
                 last |-> "", answer |-> "", status |-> "", error |-> "",
                 sent |-> {}]

Pending(op, who) == [op |-> op, who |-> who, outcome |-> "pending", exc |-> NoExc,
                     value |-> None, rows |-> <<>>]

\* Cursor._result_set is None
NoResultSet == [id |-> None, sub |-> 0, pg |-> 0, ix |-> 0, done |-> FALSE]

\* the history of a cursor nothing was done with: how its latest execute ended
\* (last) and the id the latest successful one returned (id); the rows handed out
\* (got) and the pages requested (fetched) of its current result set
NoHistory == [last |-> "none", id |-> None, got |-> <<>>, fetched |-> 0]

\* a generator of execute_fetch that has ended before it had a result set
ClosedGenerator == [NoResultSet EXCEPT !.done = TRUE]

\* Cursor.__init__
NewCursor == [query_id |-> None, result_set |-> NoResultSet, column_metadata |-> None]

-----------------------------------------------------------------------------
(* RedshiftDataClient: pure parts *)

\* a ceiling that adds one even when b divides a
CeilDiv_AlwaysUp(a, b) == (a \div b) + 1

\* math.ceil(a / b) for b > 0
CeilDiv(a, b) == -((-a) \div b)

\* _wait: the number of status checks
CheckCount(timeout_seconds, check_internal_seconds) ==
    LET check_count == CeilDiv(timeout_seconds, check_internal_seconds)
    IN  IF check_count <= 0 THEN FallbackChecks ELSE check_count

\* a batch limit that lets one statement too many through
BatchAllowed_OffByOne(n) == n <= MaxBatch + 1

\* execute_sqls: the assertion on the batch
BatchAllowed(n) == n <= MaxBatch

\* a budget test that gives up as soon as nothing is left
BudgetSpent_Inclusive(timeout_seconds) == timeout_seconds <= 0

\* execute_sqls: the budget test made on an admission-control rejection
BudgetSpent(timeout_seconds) == timeout_seconds < 0

\* an except clause that backs off and retries on every client error
OnSubmitError_RetryAll(code) == "retry"

\* execute_sqls: the except clause, what a raising submit leads to
OnSubmitError(code) ==
    IF code = "ActiveStatementsExceededException" THEN "retry" ELSE "raise"

\* a wait that polls again after a failed statement
OnStatus_RetryFailed(status) ==
    IF status = "FINISHED" THEN "return"
    ELSE IF status \in {"SUBMITTED", "PICKED", "STARTED", "FAILED"} THEN "sleep"
    ELSE IF status \in {"ABORTED"} THEN "RedshiftQueryException"
    ELSE "RuntimeError"

\* _wait: what a polled status (upper-cased) leads to
OnStatus(status) ==
    IF status = "FINISHED" THEN "return"
    ELSE IF status \in {"SUBMITTED", "PICKED", "STARTED"} THEN "sleep"
    ELSE IF status \in {"ABORTED", "FAILED"} THEN "RedshiftQueryException"
    ELSE "RuntimeError"

\* a wait whose sleep doubles with every in-flight poll
PollSleep_Doubling(check_internal_seconds, i) == check_internal_seconds * 2 ^ i

\* _wait: the seconds slept after an in-flight poll
PollSleep(check_internal_seconds, i) == check_internal_seconds

\* _wait: the argument of cancel_statement, Id=str
CancelTarget(id_) == StrClass

\* a loop that forgets to count the check it has made
NextCheck_NotCounted(frame, seconds) == frame

\* _wait: the locals after an in-flight poll: slept, and on to the next check
NextCheck(frame, seconds) ==
    [frame EXCEPT !.i = @ + 1, !.polls = @ + 1,
                  !.sleeps = Append(@, <<"poll", seconds>>)]

\* a loop that makes one check more than check_count
ChecksUsedUp_OffByOne(i, check_count) == i > check_count

\* _wait: whether the for loop has used up its checks
ChecksUsedUp(i, check_count) == i >= check_count

-----------------------------------------------------------------------------
(* RedshiftDataClient.__init__ *)

\* the connection arguments of __init__
Fields == {"workgroup", "secret_arn", "user", "cluster_identifier"}

\* the key of _connection_details an argument is stored under
Key(f) ==
    CASE f = "workgroup"          -> "WorkgroupName"
      [] f = "secret_arn"         -> "SecretArn"
      [] f = "user"               -> "DbUser"
      [] f = "cluster_identifier" -> "ClusterIdentifier"

\* a constructor that forgets to drop DbUser when a secret is given
ConnectionDetails_KeepsUser(args) ==
    LET details == {Key(f) : f \in args}
    IN  IF "cluster_identifier" \in args /\ "workgroup" \in args
          THEN details \ {"ClusterIdentifier"} ELSE details

\* __init__: the keys of _connection_details for the non-empty arguments args
ConnectionDetails(args) ==
    LET details == {Key(f) : f \in args}
        no_user == IF "user" \in args /\ "secret_arn" \in args
                     THEN details \ {"DbUser"} ELSE details
    IN  IF "cluster_identifier" \in args /\ "workgroup" \in args
          THEN no_user \ {"ClusterIdentifier"} ELSE no_user

-----------------------------------------------------------------------------
\* A client constructed with the non-empty arguments args, facing a backend that has
\* accepted `before` executions of others, with the cursors cs handed out
Start(args, before, cs) ==
    /\ given = args
    /\ conn = ConnectionDetails(args)
    /\ open = cs
    /\ issued = before
    /\ cur = [c \in Cursors |-> NewCursor]
    /\ hist = [c \in Cursors |-> NoHistory]
    /\ gen = NoResultSet
    /\ pc = "idle"
    /\ call = NoCall
    /\ log = NewLog(0, 0)
    /\ ret = Pending("none", "none")

\* one cursor on a client given all four arguments, and a fresh backend
Init == Start(Fields, 0, {"A"})

\* an execute that forgets the id execute_sql returned
StoreExecuted_Keeps(cursor, id) == cursor

\* Cursor.execute: what the cursor keeps when execute_sql has returned id
StoreExecuted(cursor, id) == [cursor EXCEPT !.query_id = id]

(* RedshiftDataClient.row_count / result_set: what is read *)

\* a client that reads the first sub-statement instead of the last
Target_First(id) == IF Data(id).subs > 0 THEN 1 ELSE 0

\* result_set / row_count: the sub-statement whose results are read, the last one
\* listed, or 0 for the execution itself
Target(id) == Data(id).subs

\* get_statement_result: the sizes of the result pages the backend holds for
\* statement sub of execution id (0: the execution itself).  Data(id).pages are
\* those of the statement describe_statement lists last; the others differ.
StatementPages(id, sub) ==
    IF sub = Data(id).subs THEN Data(id).pages ELSE <<sub + 3>>

\* the rows of one result: tuples tagged with the statement they belong to
Row(id, sub, pg, ix) == <<id, sub, pg, ix>>

RECURSIVE SumSeq(_)
SumSeq(q) == IF q = <<>> THEN 0 ELSE Head(q) + SumSeq(Tail(q))

\* row_count: describe_statement's ResultRows of the last sub-statement, or of the
\* execution when it has none
ResultRows(id) == SumSeq(StatementPages(id, Target(id)))

\* result_set: the generator as created, positioned before the first row of the
\* first page, which has been fetched
NewResultSet(id) == [id |-> id, sub |-> Target(id), pg |-> 1, ix |-> 0, done |-> FALSE]

\* a generator that takes an empty page for the end of the result
Advance_StopsAtEmptyPage(rs, fetched) ==
    LET sizes == StatementPages(rs.id, rs.sub) IN
    IF rs.done
      THEN [rs |-> rs, has |-> FALSE, row |-> <<>>, fetched |-> fetched]
    ELSE IF rs.ix < sizes[rs.pg]
      THEN [rs |-> [rs EXCEPT !.ix = @ + 1], has |-> TRUE,
            row |-> Row(rs.id, rs.sub, rs.pg, rs.ix + 1), fetched |-> fetched]
    ELSE IF rs.pg < Len(sizes) /\ sizes[rs.pg + 1] > 0
      THEN [rs |-> [rs EXCEPT !.pg = @ + 1, !.ix = 1], has |-> TRUE,
            row |-> Row(rs.id, rs.sub, rs.pg + 1, 1), fetched |-> fetched + 1]
    ELSE [rs |-> [rs EXCEPT !.done = TRUE], has |-> FALSE, row |-> <<>>,
          fetched |-> IF rs.pg < Len(sizes) THEN fetched + 1 ELSE fetched]

\* a generator that asks for the next page as soon as it yields the last row of one
RECURSIVE Advance_Prefetch(_, _)
Advance_Prefetch(rs, fetched) ==
    LET sizes == StatementPages(rs.id, rs.sub) IN
    IF rs.done
      THEN [rs |-> rs, has |-> FALSE, row |-> <<>>, fetched |-> fetched]
    ELSE IF rs.ix < sizes[rs.pg]
      THEN IF rs.ix + 1 = sizes[rs.pg] /\ rs.pg < Len(sizes)
             THEN [rs |-> [rs EXCEPT !.pg = @ + 1, !.ix = 0], has |-> TRUE,
                   row |-> Row(rs.id, rs.sub, rs.pg, rs.ix + 1),
                   fetched |-> fetched + 1]
             ELSE [rs |-> [rs EXCEPT !.ix = @ + 1], has |-> TRUE,
                   row |-> Row(rs.id, rs.sub, rs.pg, rs.ix + 1), fetched |-> fetched]
    ELSE IF rs.pg < Len(sizes)
      THEN Advance_Prefetch([rs EXCEPT !.pg = @ + 1, !.ix = 0], fetched + 1)
    ELSE [rs |-> [rs EXCEPT !.done = TRUE], has |-> FALSE, row |-> <<>>,
          fetched |-> fetched]

\* next() on the generator of result_set.  Gives the generator afterwards, whether a
\* row was yielded (has) and which, and the pages fetched on the way: the next page
\* is asked for when the rows of the current one are used up; after the last page
\* the generator is finished and stays so.
RECURSIVE Advance(_, _)
Advance(rs, fetched) ==
    LET sizes == StatementPages(rs.id, rs.sub) IN
    IF rs.done
      THEN [rs |-> rs, has |-> FALSE, row |-> <<>>, fetched |-> fetched]
    ELSE IF rs.ix < sizes[rs.pg]
      THEN [rs |-> [rs EXCEPT !.ix = @ + 1], has |-> TRUE,
            row |-> Row(rs.id, rs.sub, rs.pg, rs.ix + 1), fetched |-> fetched]
    ELSE IF rs.pg < Len(sizes)
      THEN Advance([rs EXCEPT !.pg = @ + 1, !.ix = 0], fetched + 1)
    ELSE [rs |-> [rs EXCEPT !.done = TRUE], has |-> FALSE, row |-> <<>>,
          fetched |-> fetched]

\* [c for c in self._result_set]: next() until the generator is finished
RECURSIVE Drain(_, _, _)
Drain(rs, rows, fetched) ==
    LET step == Advance(rs, fetched) IN
    IF step.has THEN Drain(step.rs, Append(rows, step.row), step.fetched)
    ELSE [rs |-> step.rs, rows |-> rows, fetched |-> step.fetched]

-----------------------------------------------------------------------------
(* RedshiftDataClient.execute_sqls / _wait and their callers *)

\* the operation an activation of execute_sqls belongs to
OpOf(caller) ==
    IF caller \in Cursors THEN "execute"
    ELSE IF caller = "generator" THEN "execute_fetch" ELSE "execute_sqls"

\* execute_fetch once execute_sql has returned id: result_set(id), then the generator
\* runs to its first yield
FirstRow(id) == Advance(NewResultSet(id), 1)

\* The activation ends: execute_sqls returns val or raises exc.  For a cursor's
\* execute, Cursor.execute stores the returned id; a raise leaves the cursor as it was.
\* For the first next() of execute_fetch, a return is followed by result_set and the
\* first row is yielded (StopIteration when there is none); a raise ends the generator.
Finish(outcome, exc, val) ==
    /\ pc' = "idle"
    /\ call' = NoCall
    /\ IF call.caller = "generator"
         THEN IF outcome = "returned"
                THEN LET step == FirstRow(val) IN
                     /\ gen' = step.rs
                     /\ ret' = [Pending("execute_fetch", call.caller) EXCEPT
                                  !.outcome = IF step.has THEN "returned" ELSE "raised",
                                  !.exc.type = IF step.has THEN "" ELSE "StopIteration",
                                  !.rows = IF step.has THEN <<step.row>> ELSE <<>>]
                ELSE /\ gen' = ClosedGenerator
                     /\ ret' = [Pending("execute_fetch", call.caller) EXCEPT
                                  !.outcome = outcome, !.exc = exc]
         ELSE /\ gen' = gen
              /\ ret' = [Pending(OpOf(call.caller), call.caller)
                           EXCEPT !.outcome = outcome, !.exc = exc, !.value = val]
    /\ IF call.caller \in Cursors
         THEN IF outcome = "returned"
                THEN /\ cur' = [cur EXCEPT ![call.caller] = StoreExecuted(@, val)]
                     /\ hist' = [hist EXCEPT ![call.caller].last = "ok",
                                              ![call.caller].id = val]
                ELSE /\ cur' = cur
                     /\ hist' = [hist EXCEPT ![call.caller].last = "raised"]
         ELSE UNCHANGED <<cur, hist>>

\* execute_sqls is entered: the assertion, then the submit loop.  The consumer of
\* execute_fetch holds one generator: a new one takes the place of the one before.
Enter(caller, n, wait, T) ==
    /\ pc = "idle"
    /\ issued < MaxExec
    /\ log' = NewLog(n, T)
    /\ gen' = IF caller = "generator" THEN NoResultSet ELSE gen
    /\ UNCHANGED <<issued, cur, fixed>>
    /\ IF BatchAllowed(n)
         THEN /\ pc' = "submit"
              /\ call' = [NoCall EXCEPT !.caller = caller, !.sqls = n, !.wait = wait,
                                        !.timeout_seconds = T]
              /\ ret' = Pending(OpOf(caller), caller)
              /\ hist' = hist
         ELSE /\ pc' = "idle"
              /\ call' = NoCall
              /\ ret' = [Pending(OpOf(caller), caller)
                           EXCEPT !.outcome = "raised", !.exc.type = "AssertionError"]
              /\ hist' = IF caller \in Cursors
                           THEN [hist EXCEPT ![caller].last = "raised"] ELSE hist

\* RedshiftDataClient.execute_sqls called directly
ExecuteSqls ==
    \E n \in BatchSizes, wait \in BOOLEAN, T \in Timeouts :
        Enter("client", n, wait, T)

\* Cursor.execute: execute_sql(operation, True), one statement, the default timeout
CursorExecute(c) == Enter(c, 1, TRUE, DefaultTimeout)

\* RedshiftDataClient.execute_fetch: the first next() on the generator it returns
\* (the call itself runs nothing): execute_sql(sql, True, timeout_seconds)
ExecuteFetch == \E T \in Timeouts : Enter("generator", 1, TRUE, T)

\* one pass of the submit loop: batch_execute_statement and its answer
Submit ==
    /\ pc = "submit"
    /\ UNCHANGED fixed
    /\ \E answer \in SubmitAnswers :
        LET logged == [log EXCEPT !.submits = @ + 1, !.last = "submit",
                                  !.answer = answer, !.sent = conn] IN
        IF answer = "accepted"
          THEN LET id == issued + 1 IN
               /\ issued' = id
               /\ log' = logged
               /\ IF call.wait
                    THEN /\ pc' = "poll"
                         /\ call' = [call EXCEPT !.id_ = id, !.i = 0, !.check_count =
                                        CheckCount(call.timeout_seconds, CheckInterval)]
                         /\ UNCHANGED <<cur, hist, gen, ret>>
                    ELSE Finish("returned", NoExc, id)
          ELSE /\ UNCHANGED issued
               /\ IF OnSubmitError(answer) = "retry"
                    THEN IF BudgetSpent(call.timeout_seconds)
                           THEN /\ log' = logged
                                /\ Finish("raised",
                                          [NoExc EXCEPT !.type = "RuntimeError:submit timed out"],
                                          None)
                           ELSE /\ call' = [call EXCEPT
                                              !.timeout_seconds = @ - Backoff,
                                              !.sleeps = Append(@, <<"backoff", Backoff>>)]
                                /\ log' = [logged EXCEPT
                                             !.last = "sleep", !.backoffs = @ + 1,
                                             !.budget = call.timeout_seconds - Backoff]
                                /\ UNCHANGED <<pc, cur, hist, gen, ret>>
                    ELSE /\ log' = logged
                         /\ Finish("raised", [NoExc EXCEPT !.type = answer], None)

\* one pass of _wait's for loop: describe_statement and its answer
Poll ==
    /\ pc = "poll"
    /\ UNCHANGED <<issued, fixed>>
    /\ \E resp \in DescribeAnswers :
        LET status == Upper(resp.status)
            logged == [log EXCEPT !.last = "describe",
                                  !.status = resp.status, !.error = resp.error]
        IN
        IF resp.raises
          THEN /\ log' = logged
               /\ Finish("raised", [NoExc EXCEPT !.type = "ClientError"], None)
        ELSE IF OnStatus(status) = "return"
          THEN /\ log' = IF call.caller = "generator"
                           THEN [logged EXCEPT !.describes = 1,
                                               !.pages = FirstRow(call.id_).fetched]
                           ELSE logged
               /\ Finish("returned", NoExc, call.id_)
        ELSE IF OnStatus(status) = "sleep"
          THEN /\ log' = [logged EXCEPT !.last = "sleep"]
               /\ call' = NextCheck(call, PollSleep(CheckInterval, call.i))
               /\ pc' = IF ChecksUsedUp(call'.i, call.check_count)
                          THEN "cancel" ELSE "poll"
               /\ UNCHANGED <<cur, hist, gen, ret>>
        ELSE IF OnStatus(status) = "RedshiftQueryException"
          THEN /\ log' = logged
               /\ Finish("raised",
                         [type |-> "RedshiftQueryException", id |-> call.id_,
                          status |-> status, error |-> resp.error], None)
        ELSE /\ log' = logged
             /\ Finish("raised",
                       [NoExc EXCEPT !.type = "RuntimeError:invalid status",
                                     !.id = call.id_, !.status = status], None)

\* _wait after the loop: the cancel attempt, any error of it swallowed, then the
\* timeout error
Cancel ==
    /\ pc = "cancel"
    /\ UNCHANGED <<issued, fixed>>
    /\ \E answer \in CancelAnswers :
        /\ log' = [log EXCEPT !.cancels = @ + 1, !.cancelArg = CancelTarget(call.id_),
                              !.last = "cancel:" \o answer]
        /\ Finish("raised",
                  [NoExc EXCEPT !.type = "RuntimeError:timed out", !.id = call.id_], None)

-----------------------------------------------------------------------------
(* RedshiftDataClient.row_count / result_set and the Cursor's reads *)

\* describe_statement(Id=None) is refused: Id must be a string
DescribeRefused(id) == id = None

\* Cursor._get_result_set: the cursor with the result of query_id materialized
GetResultSet(cursor, query_id) ==
    [cursor EXCEPT !.column_metadata = query_id, !.result_set = NewResultSet(query_id)]

\* fetchone / fetchall: whether result_set is called first
NeedsResultSet(cursor) == cursor.result_set.id = None

\* a description without the check that a query was executed
NotExecuted_Never(cursor) == FALSE

\* description: whether no query has been executed
NotExecuted(cursor) == cursor.query_id = None

\* _get_description: whether result_set is called first
NeedsMetadata(cursor) == cursor.column_metadata = None

\* a read of cursor c ends: the cursor as it is afterwards, and what was returned.
\* describes counts the calls of result_set or row_count (one describe_statement
\* each); a call of result_set that was answered starts the history of a new
\* result set.
Done(op, c, after, outcome, exctype, value, rows, describes, pages) ==
    /\ pc = "idle"
    /\ cur' = [cur EXCEPT ![c] = after]
    /\ ret' = [Pending(op, c) EXCEPT !.outcome = outcome, !.exc.type = exctype,
                                     !.value = value, !.rows = rows]
    /\ log' = [NewLog(0, 0) EXCEPT !.describes = describes, !.pages = pages]
    /\ hist' = IF describes > 0 /\ pages > 0
                 THEN [hist EXCEPT ![c].got = rows, ![c].fetched = pages]
                 ELSE [hist EXCEPT ![c].got = @ \o rows, ![c].fetched = @ + pages]
    /\ UNCHANGED <<issued, gen, pc, call, fixed>>

\* Cursor.fetchone
Fetchone(c) ==
    LET me == cur[c] IN
    IF NeedsResultSet(me) /\ DescribeRefused(me.query_id)
      THEN Done("fetchone", c, me, "raised", "ParamValidationError", None, <<>>, 1, 0)
      ELSE LET first == NeedsResultSet(me)
               got   == IF first THEN GetResultSet(me, me.query_id) ELSE me
               step  == Advance(got.result_set, IF first THEN 1 ELSE 0)
               after == [got EXCEPT !.result_set = step.rs]
           IN  IF step.has
                 THEN Done("fetchone", c, after, "returned", "", None, <<step.row>>,
                           IF first THEN 1 ELSE 0, step.fetched)
                 ELSE Done("fetchone", c, after, "raised", "StopIteration", None, <<>>,
                           IF first THEN 1 ELSE 0, step.fetched)

\* Cursor.fetchall
Fetchall(c) ==
    LET me == cur[c] IN
    IF NeedsResultSet(me) /\ DescribeRefused(me.query_id)
      THEN Done("fetchall", c, me, "raised", "ParamValidationError", None, <<>>, 1, 0)
      ELSE LET first == NeedsResultSet(me)
               got   == IF first THEN GetResultSet(me, me.query_id) ELSE me
               all   == Drain(got.result_set, <<>>, IF first THEN 1 ELSE 0)
           IN  Done("fetchall", c, [got EXCEPT !.result_set = all.rs], "returned", "",
                    None, all.rows, IF first THEN 1 ELSE 0, all.fetched)

\* Cursor.rowcount
Rowcount(c) ==
    LET me == cur[c] IN
    IF DescribeRefused(me.query_id)
      THEN Done("rowcount", c, me, "raised", "ParamValidationError", None, <<>>, 1, 0)
      ELSE Done("rowcount", c, me, "returned", "", ResultRows(me.query_id), <<>>, 1, 0)

\* Cursor.description; the descriptors returned are those of column_metadata
Description(c) ==
    LET me == cur[c] IN
    IF NotExecuted(me)
      THEN Done("description", c, me, "raised", "RuntimeError", None, <<>>, 0, 0)
      ELSE LET first == NeedsMetadata(me)
               got   == IF first THEN GetResultSet(me, me.query_id) ELSE me
           IN  Done("description", c, got, "returned", "", got.column_metadata, <<>>,
                    IF first THEN 1 ELSE 0, IF first THEN 1 ELSE 0)

\* a later next() on the generator of execute_fetch: the next row of result_set's
\* generator, or StopIteration when that has ended or the first next() raised
FetchNext ==
    LET step == Advance(gen, 0) IN
    /\ pc = "idle"
    /\ gen # NoResultSet
    /\ gen' = step.rs
    /\ ret' = [Pending("next", "generator") EXCEPT
                 !.outcome = IF step.has THEN "returned" ELSE "raised",
                 !.exc.type = IF step.has THEN "" ELSE "StopIteration",
                 !.rows = IF step.has THEN <<step.row>> ELSE <<>>]
    /\ log' = [NewLog(0, 0) EXCEPT !.pages = step.fetched]
    /\ UNCHANGED <<issued, cur, hist, pc, call, fixed>>

-----------------------------------------------------------------------------
(* DataApiConnection *)

\* DataApiConnection.__init__: with an iam_role the role is assumed first; then
\* RedshiftDataClient(database, client, workgroup=workgroup, ...) hands the client
\* in the position of workgroup, which Python refuses: no connection is ever
\* constructed, and cursor() cannot be called
Connect ==
    /\ pc = "idle"
    /\ \E iam_role \in BOOLEAN :
          log' = [NewLog(0, 0) EXCEPT !.last = IF iam_role THEN "assume_role" ELSE ""]
    /\ ret' = [Pending("DataApiConnection", "connection") EXCEPT
                 !.outcome = "raised", !.exc.type = "TypeError"]
    /\ UNCHANGED <<issued, cur, hist, gen, pc, call, fixed>>

Next ==
    \/ ExecuteSqls
    \/ ExecuteFetch
    \/ FetchNext
    \/ Connect
    \/ \E c \in open : Fetchone(c)
    \/ \E c \in open : Fetchall(c)
    \/ \E c \in open : Rowcount(c)
    \/ \E c \in open : Description(c)
    \/ \E c \in open : CursorExecute(c)
    \/ Submit
    \/ Poll
    \/ Cancel

Spec == Init /\ [][Next]_vars

\* every combination of connection arguments; the backend has room for one execution
InitConn == \E args \in SUBSET Fields : Start(args, MaxExec - 1, {"A"})

SpecConn == InitConn /\ [][Next]_vars

\* two cursors constructed on one client, Cursor(client) twice, when B has executed
\* the latest statement the backend accepted and the backend has room for one more
InitTwo ==
    /\ given = Fields
    /\ conn = ConnectionDetails(Fields)
    /\ open = {"A", "B"}
    /\ issued = MaxExec - 1
    /\ cur = [c \in Cursors |->
                IF c = "B" THEN StoreExecuted(NewCursor, MaxExec - 1) ELSE NewCursor]
    /\ hist = [c \in Cursors |->
                 IF c = "B" THEN [NoHistory EXCEPT !.last = "ok", !.id = MaxExec - 1]
                 ELSE NoHistory]
    /\ gen = NoResultSet
    /\ pc = "idle"
    /\ call = NoCall
    /\ log = NewLog(0, 0)
    /\ ret = Pending("none", "none")

SpecTwo == InitTwo /\ [][Next]_vars

\* one execution; every RPC returns and the calling thread runs on, so a call in
\* progress takes its next step
InitOne == Start(Fields, MaxExec - 1, {"A"})

SpecLive ==
    /\ InitOne
    /\ [][Next]_vars
    /\ WF_vars(Submit)
    /\ WF_vars(Poll)
    /\ WF_vars(Cancel)

-----------------------------------------------------------------------------
(* The claims *)

ReadOps == {"fetchone", "fetchall", "rowcount", "description"}

InFlight == {"SUBMITTED", "PICKED", "STARTED"}

\* the seconds slept between status polls, in order
PollSleeps ==
    LET q == SelectSeq(call.sleeps, LAMBDA e : e[1] = "poll")
    IN  [k \in 1..Len(q) |-> q[k][2]]

Min(a, b) == IF a < b THEN a ELSE b

\* the seconds slept so far in the call in progress, backoffs and poll intervals
TotalSleep == SumSeq([k \in 1..Len(call.sleeps) |-> call.sleeps[k][2]])

\* the rows the backend holds for statement sub of execution id, from page pg on:
\* the pages one after the other, each in its own order
RECURSIVE RowsFrom(_, _, _)
RowsFrom(id, sub, pg) ==
    LET sizes == StatementPages(id, sub) IN
    IF pg > Len(sizes) THEN <<>>
    ELSE [ix \in 1..sizes[pg] |-> Row(id, sub, pg, ix)] \o RowsFrom(id, sub, pg + 1)

\* the cursors whose result set has been materialized
Materialized == {c \in Cursors : cur[c].result_set.id # None}

\* the connection parameters the arguments in `given` call for
ExpectedParameters ==
    {k \in {"WorkgroupName", "SecretArn", "DbUser", "ClusterIdentifier"} :
        \/ k = "WorkgroupName" /\ "workgroup" \in given
        \/ k = "SecretArn" /\ "secret_arn" \in given
        \/ k = "DbUser" /\ "user" \in given /\ "secret_arn" \notin given
        \/ k = "ClusterIdentifier" /\ "cluster_identifier" \in given
              /\ "workgroup" \notin given}

\* C1: once execute has returned on a cursor, every row that fetchone or fetchall
\* returns, and the column metadata description returns, belong to the execution
\* that the latest execute on that cursor started.
C1_ReadsLatestExecution ==
    \A c \in Cursors :
        (ret.who = c /\ ret.outcome = "returned" /\ hist[c].last = "ok") =>
            /\ ret.op \in {"fetchone", "fetchall"} =>
                   \A k \in 1..Len(ret.rows) : ret.rows[k][1] = hist[c].id
            /\ ret.op = "description" => ret.value = hist[c].id

\* C2: when the latest execute on a cursor raised, every fetchone, fetchall,
\* description and rowcount on that cursor raises.
C2_FailedCursorRaises ==
    \A c \in Cursors :
        (ret.who = c /\ ret.op \in ReadOps /\ hist[c].last = "raised") =>
            ret.outcome = "raised"

\* C3: _wait goes on polling only after an in-flight status.  A polled status that is
\* not SUBMITTED, PICKED or STARTED (compared upper-cased, as _wait does) was the last
\* thing execute_sqls did: FINISHED returned the id (to the caller, or to
\* execute_fetch, which went on to read the result of that id), ABORTED or FAILED
\* raised RedshiftQueryException with the id, that status and the service's error
\* text, anything else raised the invalid-status error.
C3_TerminalStatusEndsWait ==
    /\ (pc \in {"poll", "cancel"} /\ call.polls > 0) => Upper(log.status) \in InFlight
    /\ (log.status # "" /\ Upper(log.status) \notin InFlight) =>
          /\ pc = "idle"
          /\ log.last = "describe"
          /\ log.cancels = 0
          /\ Upper(log.status) = "FINISHED" =>
                 IF ret.op = "execute_fetch"
                   THEN gen.id = issued
                   ELSE ret.outcome = "returned" /\ ret.value = issued
          /\ Upper(log.status) \in {"ABORTED", "FAILED"} =>
                 /\ ret.outcome = "raised"
                 /\ ret.exc = [type |-> "RedshiftQueryException", id |-> issued,
                               status |-> Upper(log.status), error |-> log.error]
          /\ Upper(log.status) \notin {"FINISHED", "ABORTED", "FAILED"} =>
                 /\ ret.outcome = "raised"
                 /\ ret.exc.type = "RuntimeError:invalid status"

\* a wait ended by FAILED: the query failure carries the service's text
C3_Witness ==
    /\ log.status = "FAILED"
    /\ log.error = "syntax error"
    /\ ret.exc.type = "RedshiftQueryException"
    /\ ret.exc.error = "syntax error"

\* C4: while every submission is rejected by admission control, each backoff round
\* sleeps 10 and takes exactly 10 off the remaining budget, and for a timeout T >= 0
\* the timeout error is raised after exactly floor(T/10)+1 rounds.
C4_BackoffRounds ==
    /\ pc = "submit" =>
          /\ log.submits = log.backoffs
          /\ Len(call.sleeps) = log.backoffs
          /\ \A k \in 1..Len(call.sleeps) : call.sleeps[k] = <<"backoff", 10>>
          /\ call.timeout_seconds = log.t0 - 10 * log.backoffs
          /\ log.t0 >= 0 => log.backoffs <= (log.t0 \div 10) + 1
    /\ (ret.exc.type = "RuntimeError:submit timed out" /\ log.t0 >= 0) =>
          /\ log.backoffs = (log.t0 \div 10) + 1
          /\ log.submits = log.backoffs + 1
          /\ log.budget = log.t0 - 10 * log.backoffs

\* the submission timed out after two rounds on a timeout of 10
C4_Witness ==
    /\ ret.exc.type = "RuntimeError:submit timed out"
    /\ log.t0 = 10
    /\ log.backoffs = 2

\* C5: a submission error other than the admission-control rejection is the last
\* thing the call does: the error is raised to the caller, nothing is slept, polled,
\* cancelled or submitted after it, and the budget is what the backoffs before it left.
C5_OtherSubmitErrorPropagates ==
    log.answer = "ValidationException" =>
        /\ pc = "idle"
        /\ ret.outcome = "raised"
        /\ ret.exc.type = "ValidationException"
        /\ log.last = "submit"
        /\ log.submits = log.backoffs + 1
        /\ log.budget = log.t0 - Backoff * log.backoffs
        /\ log.cancels = 0
        /\ log.status = ""

\* the error came after one backoff round, and nothing followed it
C5_Witness ==
    /\ log.answer = "ValidationException"
    /\ log.backoffs = 1
    /\ log.submits = 2
    /\ ret.exc.type = "ValidationException"

\* C6: a batch of 41 or more statements raises at once with no backend call; a batch
\* of 1 to 40 statements whose submit is accepted, and whose status is then reported
\* FINISHED when waited for, returns the id the backend assigned.
C6_BatchLimit ==
    /\ (ret.op = "execute_sqls" /\ log.sqls >= 41) =>
          /\ pc = "idle"
          /\ ret.outcome = "raised"
          /\ ret.exc.type = "AssertionError"
          /\ log.submits = 0 /\ log.cancels = 0 /\ log.describes = 0
          /\ log.last = "" /\ log.status = ""
    /\ (ret.op \in {"execute_sqls", "execute"} /\ log.sqls \in 1..40
        /\ log.submits = 1 /\ log.answer = "accepted"
        /\ \/ pc = "idle" /\ log.last = "submit"
           \/ Upper(log.status) = "FINISHED") =>
          /\ pc = "idle"
          /\ ret.outcome = "returned"
          /\ ret.value = issued
          /\ issued > 0

\* a batch of 41 was refused without a submit
C6_Witness ==
    /\ ret.op = "execute_sqls"
    /\ log.sqls = 41
    /\ ret.exc.type = "AssertionError"
    /\ log.submits = 0

\* a batch of 40 was accepted and its id returned
C6_WitnessAccepted ==
    /\ ret.op = "execute_sqls"
    /\ log.sqls = 40
    /\ ret.outcome = "returned"
    /\ ret.value = issued

\* C7: execute_sqls with an empty batch raises without any submit call.
C7_EmptyBatchFailsFast ==
    (ret.op = "execute_sqls" /\ ret.who = "client" /\ log.sqls = 0) =>
        /\ pc = "idle"
        /\ ret.outcome = "raised"
        /\ log.submits = 0

\* C8 as stated: the sleeps between polls never exceed the cap (the interval
\* execute_sqls configures), start below it, and each is the double of the one
\* before, capped.
C8_DoublingIntervals ==
    LET p == PollSleeps IN
    /\ \A k \in 1..Len(p) : p[k] <= CheckInterval
    /\ \A k \in 1..(Len(p) - 1) : p[k] <= p[k + 1]
    /\ Len(p) > 0 => p[1] < CheckInterval
    /\ \A k \in 1..(Len(p) - 1) : p[k + 1] = Min(2 * p[k], CheckInterval)

\* What _wait does instead of C8: every in-flight poll is followed by one sleep of
\* exactly the configured interval (1 second as execute_sqls calls _wait), so the
\* sequence is constant: non-decreasing and never above the interval, with no doubling.
C8_ConstantIntervals ==
    LET p == PollSleeps IN
    /\ Len(p) = call.polls
    /\ \A k \in 1..Len(p) : p[k] = 1

\* three in-flight polls have been slept after
C8_Witness ==
    /\ pc = "poll"
    /\ call.polls = 3
    /\ Len(PollSleeps) = 3

\* C9: cancel_statement is called once, after the poll that used up the checks with
\* every poll in-flight, and the timeout error follows whatever cancel answers; no
\* other path calls it.
C9_CancelOnlyOnTimeout ==
    /\ pc = "poll" => call.polls < call.check_count /\ log.cancels = 0
    /\ pc = "cancel" =>
          /\ call.polls = call.check_count
          /\ call.i = call.check_count
          /\ Upper(log.status) \in InFlight
          /\ log.cancels = 0
    /\ log.cancels <= 1
    /\ log.cancels = 1 <=>
          /\ pc = "idle"
          /\ ret.outcome = "raised"
          /\ ret.exc.type = "RuntimeError:timed out"
    /\ log.last \in {"cancel:ack", "cancel:error"} <=> log.cancels = 1

\* the cancel call threw and the timeout error was raised all the same
C9_Witness ==
    /\ log.last = "cancel:error"
    /\ log.cancels = 1
    /\ ret.exc.type = "RuntimeError:timed out"

\* C10: the Id of every cancel_statement call is the id that was polled, the one the
\* submission returned.
C10_CancelTargetsPolledId ==
    log.cancels > 0 => log.cancelArg = ret.exc.id /\ log.cancelArg = issued

\* C11: description on a cursor on which no execute has succeeded raises, calls
\* neither describe_statement nor get_statement_result, and leaves the cursor as it
\* was constructed: no execution id, no column metadata, no row sequence.
C11_DescriptionBeforeExecute ==
    \A c \in Cursors :
        (ret.op = "description" /\ ret.who = c /\ hist[c].id = None) =>
            /\ ret.outcome = "raised"
            /\ ret.exc.type = "RuntimeError"
            /\ log.describes = 0
            /\ log.pages = 0
            /\ cur[c] = NewCursor
            /\ hist[c].got = <<>>
            /\ hist[c].fetched = 0

\* description was read after the only execute on the cursor had raised
C11_Witness ==
    /\ ret.op = "description"
    /\ ret.who = "A"
    /\ ret.outcome = "raised"
    /\ hist["A"].last = "raised"
    /\ hist["A"].id = None

\* C12 as stated: rowcount, fetchone and fetchall on a cursor on which no execute has
\* occurred raise without any describe_statement or get_statement_result call and
\* leave the cursor unchanged.
C12_UnexecutedReadsFailFast ==
    \A c \in Cursors :
        (ret.who = c /\ ret.op \in {"rowcount", "fetchone", "fetchall"}
         /\ hist[c].last = "none") =>
            /\ ret.outcome = "raised"
            /\ log.describes = 0
            /\ log.pages = 0
            /\ cur[c] = NewCursor

\* C13: the rows fetchone and fetchall have handed out of one result set are always
\* the first rows of the concatenation of its pages, in order and each once; a
\* fetchone that returns hands out the next one, a fetchall all that are left; once
\* the sequence is exhausted everything has been handed out and nothing more is.
C13_RowsInPageOrderOnce ==
    \A c \in Materialized :
        LET rs  == cur[c].result_set
            all == RowsFrom(rs.id, rs.sub, 1)
            got == hist[c].got
        IN  /\ Len(got) <= Len(all)
            /\ got = SubSeq(all, 1, Len(got))
            /\ rs.done => got = all
            /\ (ret.who = c /\ ret.op = "fetchone" /\ ret.outcome = "returned") =>
                   /\ Len(got) > 0
                   /\ ret.rows = <<all[Len(got)]>>
            /\ (ret.who = c /\ ret.op = "fetchone" /\ ret.outcome = "raised") =>
                   /\ rs.done
                   /\ ret.rows = <<>>
                   /\ ret.exc.type = "StopIteration"
            /\ (ret.who = c /\ ret.op = "fetchall") =>
                   /\ ret.outcome = "returned"
                   /\ rs.done
                   /\ Len(ret.rows) <= Len(all)
                   /\ ret.rows = SubSeq(all, Len(all) - Len(ret.rows) + 1, Len(all))

\* a fetchall after one fetchone returned the two rows left of three, the last of
\* them from the second page
C13_Witness ==
    /\ ret.op = "fetchall"
    /\ ret.who = "A"
    /\ Len(ret.rows) = 2
    /\ Len(hist["A"].got) = 3
    /\ cur["A"].result_set.done
    /\ cur["A"].result_set.pg = 2

\* C14: the pages result_set reads, and the rows it yields, are those of the last
\* sub-statement describe_statement lists, or of the execution itself when it lists
\* none; row_count returns the row count of the same statement.
C14_LastSubStatement ==
    /\ \A c \in Materialized :
          LET rs == cur[c].result_set IN
          /\ rs.sub = Data(rs.id).subs
          /\ \A k \in 1..Len(hist[c].got) :
                /\ hist[c].got[k][1] = rs.id
                /\ hist[c].got[k][2] = Data(rs.id).subs
    /\ \A c \in Cursors :
          (ret.who = c /\ ret.op = "rowcount" /\ ret.outcome = "returned") =>
              ret.value = SumSeq(Data(cur[c].query_id).pages)

\* rows were fetched of an execution with two sub-statements
C14_Witness ==
    /\ ret.op = "fetchall"
    /\ ret.who = "A"
    /\ Len(ret.rows) > 0
    /\ Data(cur["A"].result_set.id).subs = 2
    /\ ret.rows[1][2] = 2

\* C15: whatever arguments the client was constructed with, _connection_details is
\* what they call for (the non-empty ones, DbUser dropped when a secret is given too,
\* ClusterIdentifier dropped when a workgroup is given too), every
\* batch_execute_statement is sent exactly these, and no step changes them.
C15_ConnectionParameters ==
    /\ [](/\ conn = ExpectedParameters
          /\ log.submits > 0 => log.sent = ExpectedParameters)
    /\ [][conn' = conn /\ given' = given]_vars

\* a client given user and secret has resubmitted after a rejection, the secret alone
\* sent along
C15_Witness ==
    /\ given = {"user", "secret_arn"}
    /\ log.submits >= 2
    /\ log.backoffs >= 1
    /\ log.sent = {"SecretArn"}

\* C16 as stated: an operation on one cursor leaves the execution id, column
\* metadata and row sequence of every other cursor as they were, and every row a
\* cursor fetches belongs to the latest execution of that cursor.
C16_CursorsIndependent ==
    /\ [](\A c \in Cursors :
            (ret.who = c /\ ret.op \in {"fetchone", "fetchall"}
             /\ ret.outcome = "returned" /\ hist[c].last = "ok") =>
                \A k \in 1..Len(ret.rows) : ret.rows[k][1] = hist[c].id)
    /\ [][\A c \in Cursors :
            (\/ ret'.who # c
             \/ call.caller \notin {"none", c}
             \/ call'.caller \notin {"none", c}) => cur'[c] = cur[c]]_vars

\* C17: the pages requested for a result set are the first one, requested when it
\* is materialized, and then one at a time, each only when the rows of all pages
\* before it have been handed out and one more row was asked for; the count of
\* requests is the number of the page read, so none is requested twice.  Cursor.execute
\* requests no page and describes nothing; description requests the first page only.
C17_PagesOnDemand ==
    /\ \A c \in Materialized :
          LET rs    == cur[c].result_set
              sizes == StatementPages(rs.id, rs.sub)
          IN  /\ rs.pg \in 1..Len(sizes)
              /\ hist[c].fetched = rs.pg
              /\ Len(hist[c].got) = SumSeq(SubSeq(sizes, 1, rs.pg - 1)) + rs.ix
              /\ (rs.pg > 1 /\ rs.ix = 0) => (rs.done /\ sizes[rs.pg] = 0)
              /\ (ret.who = c /\ ret.op = "description" /\ log.pages > 0) =>
                     /\ log.pages = 1
                     /\ hist[c].fetched = 1
                     /\ hist[c].got = <<>>
    /\ \A c \in Cursors \ Materialized : hist[c].fetched = 0
    /\ ret.op = "execute" => (log.pages = 0 /\ log.describes = 0)
    /\ pc # "idle" => (log.pages = 0 /\ log.describes = 0)

\* one fetchone took the only row of the first page, the next one had to ask for the
\* second page, which is empty, and the third
C17_Witness ==
    /\ ret.op = "fetchone"
    /\ ret.who = "A"
    /\ ret.outcome = "returned"
    /\ log.pages = 2
    /\ hist["A"].fetched = 3
    /\ Len(hist["A"].got) = 2

\* C18: when Cursor.execute has returned, its call submitted one statement, the last
\* submit was the accepted one and every one before it was rejected by admission
\* control, the cursor holds the id that submit returned, and the last thing the
\* call did was to read the status FINISHED of that id; nothing was cancelled.
C18_ExecuteReturnsFinished ==
    \A c \in Cursors :
        (ret.op = "execute" /\ ret.who = c /\ ret.outcome = "returned") =>
            /\ log.sqls = 1
            /\ log.answer = "accepted"
            /\ log.submits = log.backoffs + 1
            /\ ret.value = issued
            /\ cur[c].query_id = ret.value
            /\ hist[c].id = ret.value
            /\ log.last = "describe"
            /\ Upper(log.status) = "FINISHED"
            /\ log.cancels = 0

\* execute returned after a rejected submit and an accepted one
C18_Witness ==
    /\ ret.op = "execute"
    /\ ret.who = "A"
    /\ ret.outcome = "returned"
    /\ log.backoffs = 1
    /\ log.submits = 2
    /\ cur["A"].query_id = issued

\* C19: every execute_sqls call in progress ends, whatever the backend answers.
C19_ExecuteSqlsTerminates == (pc # "idle") ~> (pc = "idle")

\* a call ended by the timeout error after a rejected submit, an accepted one and
\* in-flight answers to every poll
C19_Witness ==
    /\ pc = "idle"
    /\ ret.op = "execute_sqls"
    /\ log.backoffs >= 1
    /\ log.answer = "accepted"
    /\ log.cancels = 1
    /\ ret.exc.type = "RuntimeError:timed out"

\* C20 as stated: in a waiting call with timeout T >= 0 the seconds slept, backoffs and
\* poll intervals together, never exceed T + 10.
C20_SleepWithinTimeoutPlusBackoff ==
    (pc # "idle" /\ call.wait /\ log.t0 >= 0) => TotalSleep <= log.t0 + Backoff

\* C20 amended: the seconds slept never exceed T while the budget left after the
\* backoffs is positive; once the backoffs have used it up (they overdraw it by at
\* most one backoff) _wait still makes its 5 fallback checks, so the bound is
\* T + 10 + 5 * interval.
C20_SleepWithinFallback ==
    (pc # "idle" /\ call.wait /\ log.t0 >= 0) =>
        /\ TotalSleep = Backoff * log.backoffs + CheckInterval * call.polls
        /\ call.timeout_seconds > 0 => TotalSleep <= log.t0
        /\ TotalSleep <= log.t0 + Backoff + FallbackChecks * CheckInterval

\* timeout 0: one backoff, then the five fallback checks, 15 seconds slept
C20_Witness ==
    /\ pc = "cancel"
    /\ call.wait
    /\ log.t0 = 0
    /\ log.backoffs = 1
    /\ call.polls = FallbackChecks
    /\ TotalSleep = Backoff + FallbackChecks * CheckInterval

====
